---- MODULE Spec2Model ----
(***************************************************************************)
(* A model of svg2nvg/parser.py: the path-data tokenizer of               *)
(* SVGParser.__parse_path, the fill/stroke resolvers, the group attribute  *)
(* cascade of SVGParser.__parse_g and the tree walker of                   *)
(* SVGParser.__parse_tree / __parse_element.                               *)
(*                                                                         *)
(* Python strings are modelled as sequences of one-character strings, so   *)
(* that scanning, slicing and pattern matching are computed as the code    *)
(* computes them.  Calls into the generator (the Emitter) are recorded, in *)
(* order, as records with an "op" field.                                   *)
(***************************************************************************)
EXTENDS Integers, Sequences, FiniteSets, TLC

VARIABLES
    \* ---- SVGParser.__parse_path: locals of one run of the handler ----
    d,                        \* element.attrib['d']
    pos,                      \* index of the next character of the for loop
    command,                  \* pending command letter, or None
    parameters,               \* parameters accumulated for the command
    parameter_string,         \* characters of the parameter being read
    found_decimal_separator,  \* the tokenizer's flag
    calls,                    \* generator calls made by the handler so far
    flushes,                  \* one record per execute_command invocation
    pstatus,                  \* "start", "scan", "done", "exit"
    \* ---- fill and stroke resolution of one shape element ----
    element_attrib,           \* element.attrib of the shape
    paint_calls,              \* generator calls made for it so far
    paint_pc,                 \* "fill", "stroke", "done", "error"
    \* ---- one SVGParser instance and the document it compiles ----
    status,                   \* "idle", "running", "done", "exit", "error"
    root,                     \* tag and attrib of the document's root
    stmts,                    \* self.stmts
    canvas_width,             \* self.canvas_width
    canvas_height,            \* self.canvas_height
    definitions,              \* self.generator.definitions
    group_attrib,             \* self.group_attrib
    frames,                   \* open elements of the walk: root, then groups
    visits,                   \* one record per non-root element reached
    compiled                  \* number of parse_file/parse_string calls

pathvars == <<d, pos, command, parameters, parameter_string,
              found_decimal_separator, calls, flushes, pstatus>>

paintvars == <<element_attrib, paint_calls, paint_pc>>

treevars == <<status, root, stmts, canvas_width, canvas_height, definitions,
              group_attrib, frames, visits, compiled>>

vars == <<pathvars, paintvars, treevars>>

None == "None"

\* ------------------------------------------------------------------------
\* Module-level tables of parser.py
\* ------------------------------------------------------------------------

path_commands ==
    << <<"A", 7>>, <<"C", 6>>, <<"H", 1>>, <<"L", 2>>, <<"M", 2>>,
       <<"Q", 4>>, <<"S", 4>>, <<"T", 2>>, <<"V", 1>>, <<"Z", 0>> >>

\* str.upper() / str.lower() on one letter, for the letters of the table.
LowerOf ==
    [c \in {"A", "C", "H", "L", "M", "Q", "S", "T", "V", "Z"} |->
        CASE c = "A" -> "a" [] c = "C" -> "c" [] c = "H" -> "h"
          [] c = "L" -> "l" [] c = "M" -> "m" [] c = "Q" -> "q"
          [] c = "S" -> "s" [] c = "T" -> "t" [] c = "V" -> "v"
          [] c = "Z" -> "z"]

Upper(c) ==
    IF \E u \in DOMAIN LowerOf : LowerOf[u] = c
    THEN CHOOSE u \in DOMAIN LowerOf : LowerOf[u] = c
    ELSE c

\* commands = tuple(c[0] ...) + tuple(c[0].lower() ...)
commands ==
    {path_commands[i][1] : i \in DOMAIN path_commands}
      \cup {LowerOf[path_commands[i][1]] : i \in DOMAIN path_commands}

\* The for/else of execute_command: the loop variable path_command is left
\* at the matching entry, or at the last entry of the table when nothing
\* matched (the else branch only prints).
parameter_count(cmd) ==
    IF \E i \in DOMAIN path_commands : path_commands[i][1] = Upper(cmd)
    THEN path_commands[CHOOSE i \in DOMAIN path_commands :
                           path_commands[i][1] = Upper(cmd)][2]
    ELSE path_commands[Len(path_commands)][2]

\* ------------------------------------------------------------------------
\* execute_command
\* ------------------------------------------------------------------------

PathCall(cmd, args) == [op |-> "path_command", command |-> cmd, args |-> args]

\* while parameters: path_command(command, *parameters[:n]);
\*                   parameters = parameters[n:]
Min(a, b) == IF a < b THEN a ELSE b

RECURSIVE Slices(_, _, _)
Slices(cmd, params, n) ==
    IF params = <<>> THEN <<>>
    ELSE <<PathCall(cmd, SubSeq(params, 1, Min(n, Len(params))))>>
           \o Slices(cmd, SubSeq(params, Min(n, Len(params)) + 1,
                                 Len(params)), n)

\* A tokenizer without the arity test of execute_command, for comparison with ArityMismatch.
ArityMismatchSkipped(params, n) == FALSE

\* The arity test of line 185.
ArityMismatch(params, n) == (Len(params) % n) # 0

Checked(cmd, params, n) ==
    IF n = 0
    THEN IF params # <<>>
         THEN [emitted |-> <<>>, exit |-> TRUE]
         ELSE [emitted |-> <<PathCall(cmd, <<>>)>>, exit |-> FALSE]
    ELSE IF ArityMismatch(params, n)
         THEN [emitted |-> <<>>, exit |-> TRUE]
         ELSE [emitted |-> Slices(cmd, params, n), exit |-> FALSE]

\* Result of execute_command(cmd, params): the generator calls it makes and
\* whether it ended in exit(1).
execute_command(cmd, params) ==
    IF cmd = None THEN [emitted |-> <<>>, exit |-> FALSE]
    ELSE Checked(cmd, params, parameter_count(cmd))

\* ------------------------------------------------------------------------
\* The scanning loop of __parse_path, one operator per branch.  A tokenizer
\* state t is the record of the handler's locals.
\* ------------------------------------------------------------------------

Flushed(t, cmd, params, r) ==
    [t EXCEPT !.calls = @ \o r.emitted,
              !.flushes = IF cmd = None THEN @
                          ELSE Append(@, [command |-> cmd,
                                          parameters |-> params,
                                          emitted |-> r.emitted,
                                          exit |-> r.exit]),
              !.exit = r.exit]

\* execute_command(cmd, params) called from the scanning loop.
Flush(t, cmd, params) == Flushed(t, cmd, params, execute_command(cmd, params))

\* if parameter_string: parameters.append(''.join(parameter_string)) ...
Pending(t) ==
    IF t.parameter_string # <<>>
    THEN Append(t.parameters, t.parameter_string)
    ELSE t.parameters

\* The pending parameter joins the list, then execute_command runs.
FlushPending(t) ==
    Flush([t EXCEPT !.parameters = Pending(t), !.parameter_string = <<>>],
          t.command, Pending(t))

NewCommand(f, char) ==
    IF f.exit THEN f
    ELSE [f EXCEPT !.command = char,
                   !.parameters = <<>>,
                   !.found_decimal_separator = FALSE]

\* elif char in commands
OnCommand(t, char) == NewCommand(FlushPending(t), char)

\* A separator branch that keeps found_decimal_separator, for comparison with OnSeparator.
OnSeparatorKeepsFlag(t, char) ==
    [t EXCEPT !.parameters = Pending(t),
              !.parameter_string = IF char = "-" THEN <<char>> ELSE <<>>]

\* elif char in [' ', ',', '-']
OnSeparator(t, char) ==
    LET flushed == t.parameter_string # <<>>
        ps == IF char = "-" THEN <<char>> ELSE <<>>
    IN  [t EXCEPT !.parameters = Pending(t),
                  !.parameter_string = ps,
                  !.found_decimal_separator =
                      IF flushed \/ char = "-" THEN FALSE ELSE @]

\* A '.' branch that appends every '.' to the current number, for comparison with OnDot.
OnDotNeverSplits(t, char) ==
    [t EXCEPT !.found_decimal_separator = TRUE,
              !.parameter_string = Append(@, char)]

\* elif char == '.'
OnDot(t, char) ==
    IF t.found_decimal_separator
    THEN [t EXCEPT !.parameters = Append(@, t.parameter_string),
                   !.parameter_string = <<char>>]
    ELSE [t EXCEPT !.found_decimal_separator = TRUE,
                   !.parameter_string = Append(@, char)]

\* elif command is not None
OnOther(t, char) ==
    [t EXCEPT !.parameter_string = Append(@, char)]

EndPathCommands(f) ==
    IF f.exit THEN f
    ELSE [f EXCEPT !.calls = Append(@, [op |-> "end_path_commands"])]

\* After the loop: flush the pending parameter, execute the last command,
\* end_path_commands().
OnEnd(t) == EndPathCommands(FlushPending(t))

IsSkipped(char) == char \in {"\n", "\t"}
IsCommand(char) == ~IsSkipped(char) /\ char \in commands
IsSeparator(char) ==
    ~IsSkipped(char) /\ char \notin commands /\ char \in {" ", ",", "-"}
IsDot(char) ==
    ~IsSkipped(char) /\ char \notin commands /\ char \notin {" ", ",", "-"}
      /\ char = "."
IsOther(char) ==
    ~IsSkipped(char) /\ char \notin commands
      /\ char \notin {" ", ",", "-", "."}

\* One iteration of "for char in element.attrib['d']".
ScanChar(t, char) ==
    IF IsSkipped(char) THEN t
    ELSE IF IsCommand(char) THEN OnCommand(t, char)
    ELSE IF IsSeparator(char) THEN OnSeparator(t, char)
    ELSE IF IsDot(char) THEN OnDot(t, char)
    ELSE IF t.command # None THEN OnOther(t, char)
    ELSE t

\* Locals at lines 194-197, after begin_path_commands().
StartTok ==
    [command |-> None, parameters |-> <<>>, parameter_string |-> <<>>,
     found_decimal_separator |-> FALSE,
     calls |-> <<[op |-> "begin_path_commands"]>>,
     flushes |-> <<>>, exit |-> FALSE]

\* The whole tokenization of a string, as the handler runs it.
RECURSIVE ScanFrom(_, _, _)
ScanFrom(t, s, i) ==
    IF t.exit THEN t
    ELSE IF i > Len(s) THEN OnEnd(t)
    ELSE ScanFrom(ScanChar(t, s[i]), s, i + 1)

Tokenize(s) == ScanFrom(StartTok, s, 1)

\* ------------------------------------------------------------------------
\* Inputs of the tokenizer
\* ------------------------------------------------------------------------

MaxLen == 4

PathAlphabet == {"M", "H", "Z", "m", "1", ".", "-", " ", "X", "\n"}

\* "M10 10 L20 20 30 30 Z"
SampleMLZ ==
    <<"M", "1", "0", " ", "1", "0", " ", "L", "2", "0", " ", "2", "0", " ",
      "3", "0", " ", "3", "0", " ", "Z">>

\* "M1.5.6 7"
SampleCompact == <<"M", "1", ".", "5", ".", "6", " ", "7">>

\* "M1 2 X3 4"
SampleUnknown == <<"M", "1", " ", "2", " ", "X", "3", " ", "4">>

PathSamples == {SampleMLZ, SampleCompact, SampleUnknown}

PathInputs ==
    UNION {[1..k -> PathAlphabet] : k \in 0..MaxLen} \cup PathSamples

nonpathvars == <<paintvars, treevars>>

\* ------------------------------------------------------------------------
\* The tokenizer as a state machine
\* ------------------------------------------------------------------------

Tok ==
    [command |-> command, parameters |-> parameters,
     parameter_string |-> parameter_string,
     found_decimal_separator |-> found_decimal_separator,
     calls |-> calls, flushes |-> flushes, exit |-> FALSE]

SetTok(t) ==
    /\ command' = t.command
    /\ parameters' = t.parameters
    /\ parameter_string' = t.parameter_string
    /\ found_decimal_separator' = t.found_decimal_separator
    /\ calls' = t.calls
    /\ flushes' = t.flushes

PathIdle ==
    /\ d = <<>>
    /\ pos = 1
    /\ command = None
    /\ parameters = <<>>
    /\ parameter_string = <<>>
    /\ found_decimal_separator = FALSE
    /\ calls = <<>>
    /\ flushes = <<>>
    /\ pstatus = "idle"

PathInit ==
    /\ d \in PathInputs
    /\ pos = 1
    /\ command = None
    /\ parameters = <<>>
    /\ parameter_string = <<>>
    /\ found_decimal_separator = FALSE
    /\ calls = <<>>
    /\ flushes = <<>>
    /\ pstatus = "start"

\* self.generator.begin_path_commands()
BeginPathCommands ==
    /\ pstatus = "start"
    /\ SetTok(StartTok)
    /\ pstatus' = "scan"
    /\ UNCHANGED <<d, pos>>
    /\ UNCHANGED nonpathvars

Scanning == pstatus = "scan" /\ pos <= Len(d)

SkipChar ==
    /\ Scanning /\ IsSkipped(d[pos])
    /\ pos' = pos + 1
    /\ UNCHANGED <<d, command, parameters, parameter_string,
                   found_decimal_separator, calls, flushes, pstatus>>
    /\ UNCHANGED nonpathvars

CommandChar ==
    /\ Scanning /\ IsCommand(d[pos])
    /\ \E t \in {OnCommand(Tok, d[pos])} :
         /\ SetTok(t)
         /\ pstatus' = IF t.exit THEN "exit" ELSE "scan"
    /\ pos' = pos + 1
    /\ UNCHANGED d
    /\ UNCHANGED nonpathvars

SeparatorChar ==
    /\ Scanning /\ IsSeparator(d[pos])
    /\ SetTok(OnSeparator(Tok, d[pos]))
    /\ pos' = pos + 1
    /\ UNCHANGED <<d, pstatus>>
    /\ UNCHANGED nonpathvars

DotChar ==
    /\ Scanning /\ IsDot(d[pos])
    /\ SetTok(OnDot(Tok, d[pos]))
    /\ pos' = pos + 1
    /\ UNCHANGED <<d, pstatus>>
    /\ UNCHANGED nonpathvars

OtherChar ==
    /\ Scanning /\ IsOther(d[pos]) /\ command # None
    /\ SetTok(OnOther(Tok, d[pos]))
    /\ pos' = pos + 1
    /\ UNCHANGED <<d, pstatus>>
    /\ UNCHANGED nonpathvars

\* A character that matches no branch while no command is pending.
DroppedChar ==
    /\ Scanning /\ IsOther(d[pos]) /\ command = None
    /\ pos' = pos + 1
    /\ UNCHANGED <<d, command, parameters, parameter_string,
                   found_decimal_separator, calls, flushes, pstatus>>
    /\ UNCHANGED nonpathvars

EndOfData ==
    /\ pstatus = "scan" /\ pos > Len(d)
    /\ \E t \in {OnEnd(Tok)} :
         /\ SetTok(t)
         /\ pstatus' = IF t.exit THEN "exit" ELSE "done"
    /\ UNCHANGED <<d, pos>>
    /\ UNCHANGED nonpathvars

PathNext ==
    \/ BeginPathCommands
    \/ SkipChar
    \/ CommandChar
    \/ SeparatorChar
    \/ DotChar
    \/ OtherChar
    \/ DroppedChar
    \/ EndOfData


\* ------------------------------------------------------------------------
\* Strings, numbers and dictionaries
\* ------------------------------------------------------------------------

Digits == {"0", "1", "2", "3", "4", "5", "6", "7", "8", "9"}

DigitValue ==
    [c \in Digits |->
        CASE c = "0" -> 0 [] c = "1" -> 1 [] c = "2" -> 2 [] c = "3" -> 3
          [] c = "4" -> 4 [] c = "5" -> 5 [] c = "6" -> 6 [] c = "7" -> 7
          [] c = "8" -> 8 [] c = "9" -> 9]

AllDigits(s) == \A i \in DOMAIN s : s[i] \in Digits

RECURSIVE NatOf(_)
NatOf(s) ==
    IF s = <<>> THEN 0
    ELSE 10 * NatOf(SubSeq(s, 1, Len(s) - 1)) + DigitValue[s[Len(s)]]

RECURSIVE Pow10(_)
Pow10(n) == IF n = 0 THEN 1 ELSE 10 * Pow10(n - 1)

Count(s, ch) == Cardinality({i \in DOMAIN s : s[i] = ch})

\* Index of the first ch of s, Len(s) + 1 when there is none.
Find(s, ch) ==
    IF \E i \in DOMAIN s : s[i] = ch
    THEN CHOOSE i \in DOMAIN s : s[i] = ch /\ \A j \in 1..(i - 1) : s[j] # ch
    ELSE Len(s) + 1

Signed(s) == s # <<>> /\ s[1] \in {"-", "+"}

Unsigned(s) == IF Signed(s) THEN SubSeq(s, 2, Len(s)) ELSE s

Whole(body) == SubSeq(body, 1, Find(body, ".") - 1)

Fraction(body) == SubSeq(body, Find(body, ".") + 1, Len(body))

IsDecimal(body) ==
    /\ Count(body, ".") <= 1
    /\ AllDigits(Whole(body)) /\ AllDigits(Fraction(body))
    /\ Len(Whole(body)) + Len(Fraction(body)) > 0

Magnitude(body) ==
    NatOf(Whole(body)) * Pow10(Len(Fraction(body))) + NatOf(Fraction(body))

\* float(x) for the default 1 and for decimal strings: an optional sign,
\* digits with at most one '.', at least one digit.  The value is the exact
\* fraction num/den; any other string of the modelled alphabets is a
\* ValueError.  (Exponents, "inf", "nan", '_' and surrounding blanks, which
\* float also accepts, use characters that no modelled value contains.)
Float(s) ==
    IF ~IsDecimal(Unsigned(s)) THEN [ok |-> FALSE, num |-> 0, den |-> 1]
    ELSE [ok |-> TRUE,
          num |-> IF Signed(s) /\ s[1] = "-"
                  THEN 0 - Magnitude(Unsigned(s))
                  ELSE Magnitude(Unsigned(s)),
          den |-> Pow10(Len(Fraction(Unsigned(s))))]

One == [ok |-> TRUE, num |-> 1, den |-> 1]

Times(a, b) == [ok |-> TRUE, num |-> a.num * b.num, den |-> a.den * b.den]

LessThanOne(a) == a.num < a.den

NoDict == [k \in {} |-> <<>>]

\* dict.update(other)
Update(a, b) ==
    [k \in DOMAIN a \cup DOMAIN b |-> IF k \in DOMAIN b THEN b[k] ELSE a[k]]

\* The dictionary a with a[key] = value.
With(a, key, value) == Update(a, [k \in {key} |-> value])

\* The characters of the attribute names that __parse_style searches for.
Chars(name) ==
    CASE name = "fill" -> <<"f", "i", "l", "l">>
      [] name = "stroke" -> <<"s", "t", "r", "o", "k", "e">>
      [] name = "stroke-linecap" ->
           <<"s", "t", "r", "o", "k", "e", "-", "l", "i", "n", "e", "c", "a",
             "p">>
      [] name = "stroke-linejoin" ->
           <<"s", "t", "r", "o", "k", "e", "-", "l", "i", "n", "e", "j", "o",
             "i", "n">>
      [] name = "stroke-miterlimit" ->
           <<"s", "t", "r", "o", "k", "e", "-", "m", "i", "t", "e", "r", "l",
             "i", "m", "i", "t">>
      [] name = "stroke-width" ->
           <<"s", "t", "r", "o", "k", "e", "-", "w", "i", "d", "t", "h">>

none == <<"n", "o", "n", "e">>
transparent == <<"t", "r", "a", "n", "s", "p", "a", "r", "e", "n", "t">>

\* ------------------------------------------------------------------------
\* __parse_style: re.search(r'%s:(.*?);' % name, style)
\* ------------------------------------------------------------------------

\* The positions from which a ';' is reached on the same line.
StyleEnds(style, from) ==
    {j \in from..Len(style) :
        /\ style[j] = ";"
        /\ \A k \in from..(j - 1) : style[k] # "\n"}

Least(S) == CHOOSE x \in S : \A y \in S : x <= y

\* The pattern matches at i when name and ':' are read at i and a ';'
\* follows on the same line.
StyleMatches(style, pat, i) ==
    /\ i + Len(pat) - 1 <= Len(style)
    /\ SubSeq(style, i, i + Len(pat) - 1) = pat
    /\ StyleEnds(style, i + Len(pat)) # {}

\* Group 1 of the match at i: up to the first ';'.
StyleGroup(style, from) ==
    SubSeq(style, from, Least(StyleEnds(style, from)) - 1)

StyleSearch(style, pat) ==
    IF \E i \in DOMAIN style : StyleMatches(style, pat, i)
    THEN StyleGroup(style,
             Least({i \in DOMAIN style : StyleMatches(style, pat, i)})
               + Len(pat))
    ELSE none

parse_style(attrib, name) ==
    IF "style" \in DOMAIN attrib
    THEN StyleSearch(attrib["style"], Append(Chars(name), ":"))
    ELSE none

\* element.attrib.get(key, 1), then float().
FloatOf(attrib, key) ==
    IF key \in DOMAIN attrib THEN Float(attrib[key]) ELSE One

\* ------------------------------------------------------------------------
\* __parse_fill.  The result is the returned dictionary; error marks a
\* ValueError raised by float().
\* ------------------------------------------------------------------------

\* Expands three-digit shorthand of hex color.
ExpandHex(fill) ==
    IF Len(fill) = 4 /\ fill[1] = "#"
    THEN <<"#", fill[2], fill[2], fill[3], fill[3], fill[4], fill[4]>>
    ELSE fill

FillArgs(fill, o, fo) ==
    IF fill = none \/ fill = transparent
    THEN [result |-> NoDict, error |-> FALSE]
    ELSE IF ~o.ok \/ ~fo.ok
    THEN [result |-> NoDict, error |-> TRUE]
    ELSE [result |-> [k \in {"fill", "fill-opacity"} |->
                        IF k = "fill" THEN ExpandHex(fill) ELSE Times(o, fo)],
          error |-> FALSE]

parse_fill(attrib) ==
    FillArgs(IF "fill" \in DOMAIN attrib THEN attrib["fill"]
             ELSE parse_style(attrib, "fill"),
             FloatOf(attrib, "opacity"), FloatOf(attrib, "fill-opacity"))

\* ------------------------------------------------------------------------
\* __parse_stroke
\* ------------------------------------------------------------------------

\* End of the run of digits of s that starts at i (i - 1 when there is none).
DigitRunEnd(s, i) ==
    IF \A j \in i..Len(s) : s[j] \in Digits THEN Len(s)
    ELSE Least({j \in i..Len(s) : s[j] \notin Digits}) - 1

\* [-+]?\d*\.\d+ read from i, where k is the place of its '.': the end of
\* the match, or 0.
DecimalEnd(s, k) ==
    IF k <= Len(s) /\ s[k] = "." /\ DigitRunEnd(s, k + 1) >= k + 1
    THEN DigitRunEnd(s, k + 1)
    ELSE 0

\* End of the match of [-+]?\d*\.\d+|\d+ at i, or 0.
NumberMatchEnd(s, i) ==
    IF DecimalEnd(s, DigitRunEnd(s, IF s[i] \in {"-", "+"} THEN i + 1
                                    ELSE i) + 1) > 0
    THEN DecimalEnd(s, DigitRunEnd(s, IF s[i] \in {"-", "+"} THEN i + 1
                                      ELSE i) + 1)
    ELSE IF s[i] \in Digits THEN DigitRunEnd(s, i)
    ELSE 0

MatchAt(s, i) == SubSeq(s, i, NumberMatchEnd(s, i))

\* re.findall(r"[-+]?\d*\.\d+|\d+", s), then numbers[0]; <<>> when the
\* list is empty.
FirstNumber(s) ==
    IF \E i \in DOMAIN s : NumberMatchEnd(s, i) > 0
    THEN MatchAt(s, Least({i \in DOMAIN s : NumberMatchEnd(s, i) > 0}))
    ELSE <<>>

StrokeAttribs ==
    <<"stroke-linecap", "stroke-linejoin", "stroke-miterlimit",
      "stroke-width">>

SetUnlessNone(args, name, value) ==
    IF value # none THEN With(args, name, value) ELSE args

SetStrokeArg(attrib, args, name) ==
    IF name \in DOMAIN attrib THEN With(args, name, attrib[name])
    ELSE SetUnlessNone(args, name, parse_style(attrib, name))

\* The loop of lines 277-284 over the first n names.
RECURSIVE StrokeArgs(_, _, _)
StrokeArgs(attrib, args, n) ==
    IF n = 0 THEN args
    ELSE SetStrokeArg(attrib, StrokeArgs(attrib, args, n - 1),
                      StrokeAttribs[n])

\* A threshold of one half instead of one, for comparison with DropsStroke.
DropsStrokeBelowHalf(width) == 2 * width.num < width.den

\* float(args['stroke-width']) < 1
DropsStroke(width) == LessThanOne(width)

SetWidth(args, number) ==
    IF number # <<>> THEN With(args, "stroke-width", number) ELSE args

\* Lines 286-289: the first number replaces the stroke-width.
ExtractWidth(args) ==
    IF "stroke-width" \in DOMAIN args
    THEN SetWidth(args, FirstNumber(args["stroke-width"]))
    ELSE args

WidthResult(args, width) ==
    IF ~width.ok THEN [result |-> NoDict, error |-> TRUE]
    ELSE IF DropsStroke(width) THEN [result |-> NoDict, error |-> FALSE]
    ELSE [result |-> args, error |-> FALSE]

\* Lines 291-295.
StrokeResult(args) ==
    IF "stroke-width" \in DOMAIN args
    THEN WidthResult(args, Float(args["stroke-width"]))
    ELSE [result |-> args, error |-> FALSE]

StrokeWith(attrib, stroke, o, so) ==
    IF ~o.ok \/ ~so.ok THEN [result |-> NoDict, error |-> TRUE]
    ELSE StrokeResult(ExtractWidth(StrokeArgs(attrib,
             [k \in {"stroke", "stroke-opacity"} |->
                 IF k = "stroke" THEN stroke ELSE Times(o, so)],
             Len(StrokeAttribs))))

parse_stroke(attrib) ==
    StrokeWith(attrib,
               IF "stroke" \in DOMAIN attrib THEN attrib["stroke"]
               ELSE parse_style(attrib, "stroke"),
               FloatOf(attrib, "opacity"), FloatOf(attrib, "stroke-opacity"))

\* The attribute decorator: the generator method named after the parser
\* method is called when the returned dictionary is not empty.
attribute(name, r) ==
    IF ~r.error /\ DOMAIN r.result # {}
    THEN <<[op |-> name, args |-> r.result]>>
    ELSE <<>>

\* ------------------------------------------------------------------------
\* Fill and stroke resolution as a state machine: the two calls that end
\* every shape handler, self.__parse_fill(element) and
\* self.__parse_stroke(element), on one element.
\* ------------------------------------------------------------------------

MaxWidthLen == 3

WidthAlphabet == {"0", "1", "5", ".", "-", "p"}

\* "0.5px" and "1.2px"
SampleHalfPx == <<"0", ".", "5", "p", "x">>
SampleOnePointTwoPx == <<"1", ".", "2", "p", "x">>

WidthInputs ==
    UNION {[1..k -> WidthAlphabet] : k \in 0..MaxWidthLen}
      \cup {SampleHalfPx, SampleOnePointTwoPx}

red == <<"r", "e", "d">>
blue == <<"b", "l", "u", "e">>

\* style="stroke-width:<w>;"
WidthStyle(w) == Chars("stroke-width") \o <<":">> \o w \o <<";">>

\* The stroke-width of the element: absent, an attribute, or a style property.
WidthDicts ==
    {NoDict}
      \cup {[k \in {"stroke-width"} |-> w] : w \in WidthInputs}
      \cup {[k \in {"style"} |-> WidthStyle(w)] : w \in WidthInputs}

FillDicts == {NoDict} \cup {[k \in {"fill"} |-> v] : v \in {red, none}}

StrokeDicts == {NoDict, [k \in {"stroke"} |-> red]}

OpacityDicts == {NoDict, [k \in {"opacity"} |-> <<"0", ".", "5">>]}

PaintInputs ==
    {Update(Update(Update(w, f), s), o) :
        w \in WidthDicts, f \in FillDicts, s \in StrokeDicts,
        o \in OpacityDicts}

PaintIdle ==
    /\ element_attrib = NoDict
    /\ paint_calls = <<>>
    /\ paint_pc = "idle"

PaintInit ==
    /\ element_attrib \in PaintInputs
    /\ paint_calls = <<>>
    /\ paint_pc = "fill"

nonpaintvars == <<pathvars, treevars>>

\* self.__parse_fill(element)
ResolveFill ==
    /\ paint_pc = "fill"
    /\ \E r \in {parse_fill(element_attrib)} :
         /\ paint_calls' = paint_calls \o attribute("fill", r)
         /\ paint_pc' = IF r.error THEN "error" ELSE "stroke"
    /\ UNCHANGED element_attrib
    /\ UNCHANGED nonpaintvars

\* self.__parse_stroke(element)
ResolveStroke ==
    /\ paint_pc = "stroke"
    /\ \E r \in {parse_stroke(element_attrib)} :
         /\ paint_calls' = paint_calls \o attribute("stroke", r)
         /\ paint_pc' = IF r.error THEN "error" ELSE "done"
    /\ UNCHANGED element_attrib
    /\ UNCHANGED nonpaintvars

PaintNext == ResolveFill \/ ResolveStroke


\* ------------------------------------------------------------------------
\* Element handlers.  A handler's effect is the sequence of generator calls
\* it makes and how it ends: "ok", "exit" (exit(1)) or "error" (an exception
\* that the parser does not catch).
\* ------------------------------------------------------------------------

ignored_tags == {"comment", "desc", "title", "namedview"}

\* The __parse_<name> methods that class SVGParser defines.
ParserMethods ==
    {"bounds", "circle", "element", "ellipse", "fill", "g", "line",
     "lineargradient", "path", "polygon", "polyline", "rect", "stroke",
     "style", "transform", "tree"}

\* tag.lower(), for the tags of the modelled documents.
lower(tag) ==
    CASE tag = "RECT" -> "rect"
      [] tag = "linearGradient" -> "lineargradient"
      [] OTHER -> tag

Done(cs) == [calls |-> cs, outcome |-> "ok"]

Then(a, b) ==
    IF a.outcome # "ok" THEN a
    ELSE [calls |-> a.calls \o b.calls, outcome |-> b.outcome]

\* A method under the attribute decorator.
Attribute(name, r) ==
    [calls |-> attribute(name, r),
     outcome |-> IF r.error THEN "error" ELSE "ok"]

parse_bounds(attrib) ==
    [result |-> [k \in {"x", "y", "width", "height"} |->
                    IF k \in DOMAIN attrib THEN attrib[k] ELSE 0],
     error |-> FALSE]

parse_transform(attrib) ==
    [result |-> IF "transform" \in DOMAIN attrib
                THEN [k \in {"transform"} |-> attrib["transform"]]
                ELSE NoDict,
     error |-> FALSE]

\* self.__parse_fill(element); self.__parse_stroke(element)
Paint(attrib) ==
    Then(Attribute("fill", parse_fill(attrib)),
         Attribute("stroke", parse_stroke(attrib)))

\* The generator call of a shape handler, before fill and stroke.
ShapeCall(method, attrib) ==
    CASE method = "rect" ->
           Then(Attribute("transform", parse_transform(attrib)),
           Then(Attribute("bounds", parse_bounds(attrib)),
                Done(<<[op |-> "rect",
                        args |-> parse_bounds(attrib).result]>>)))
      [] method \in {"circle", "ellipse", "polygon", "polyline"} ->
           Done(<<[op |-> method, args |-> attrib]>>)
      [] method = "line" ->
           IF {"x1", "y1", "x2", "y2"} \subseteq DOMAIN attrib
           THEN Done(<<[op |-> "line",
                        args |-> <<attrib["x1"], attrib["y1"], attrib["x2"],
                                   attrib["y2"]>>]>>)
           ELSE [calls |-> <<>>, outcome |-> "error"]

Tokenized(t) ==
    [calls |-> t.calls, outcome |-> IF t.exit THEN "exit" ELSE "ok"]

\* __parse_path up to end_path_commands().
PathCalls(attrib) ==
    IF "d" \notin DOMAIN attrib
    THEN [calls |-> <<[op |-> "begin_path_commands"]>>, outcome |-> "error"]
    ELSE Tokenized(Tokenize(attrib["d"]))

ShapeMethods ==
    {"rect", "circle", "ellipse", "polygon", "polyline", "line"}

\* The body of the method that __parse_element finds for a leaf element,
\* before the fill and stroke that end the shape and path handlers.
MethodHead(method, attrib) ==
    CASE method \in ShapeMethods -> ShapeCall(method, attrib)
      [] method = "path" -> PathCalls(attrib)
      [] method = "lineargradient" -> Done(<<>>)
      [] method = "fill" -> Attribute("fill", parse_fill(attrib))
      [] method = "stroke" -> Attribute("stroke", parse_stroke(attrib))
      [] method = "bounds" -> Attribute("bounds", parse_bounds(attrib))
      [] method = "transform" ->
           Attribute("transform", parse_transform(attrib))
      \* __parse_style lacks its name argument (TypeError), __parse_element
      \* calls itself without end (RecursionError), __parse_tree calls
      \* getroot() on an element (AttributeError).
      [] method \in {"style", "element", "tree"} ->
           [calls |-> <<>>, outcome |-> "error"]

MethodBody(method, attrib) ==
    Then(MethodHead(method, attrib),
         IF method \in ShapeMethods \cup {"path"} THEN Paint(attrib)
         ELSE Done(<<>>))

\* The methods under the element decorator.
ElementMethods ==
    {"circle", "ellipse", "g", "line", "lineargradient", "path", "polygon",
     "polyline", "rect"}

BeginElement(tag) == [op |-> "begin_element", tag |-> tag]
EndElement(tag) == [op |-> "end_element", tag |-> tag]

\* The element decorator around a method body: end_element is reached only
\* when the body returns.
element(tag, body) ==
    [calls |-> <<BeginElement(tag)>> \o body.calls
                 \o (IF body.outcome = "ok" THEN <<EndElement(tag)>>
                     ELSE <<>>),
     outcome |-> body.outcome]

Decorated(method, tag, body) ==
    IF method \in ElementMethods THEN element(tag, body) ELSE body

\* What __parse_element's method(element) does for a leaf element.
Handle(tag, attrib) ==
    Decorated(lower(tag), tag, MethodBody(lower(tag), attrib))

\* for attrib in self.group_attrib: group_attrib.update(attrib)
RECURSIVE Merged(_)
Merged(stack) ==
    IF stack = <<>> THEN NoDict
    ELSE Update(Merged(SubSeq(stack, 1, Len(stack) - 1)), stack[Len(stack)])

\* child.attrib.update(group_attrib)
Cascade(own, inherited) == Update(own, inherited)

\* str.split(' ')
RECURSIVE Split(_)
Split(str) ==
    LET blanks == {i \in DOMAIN str : str[i] = " "} IN
    IF blanks = {} THEN <<str>>
    ELSE LET i == CHOOSE x \in blanks : \A y \in blanks : x <= y
         IN  <<SubSeq(str, 1, i - 1)>> \o Split(SubSeq(str, i + 1, Len(str)))

\* The generator appends one statement to the list it was given for every
\* call made on it.
Emit(list, cs) == list \o cs

\* ------------------------------------------------------------------------
\* Documents
\* ------------------------------------------------------------------------

MaxDocs == 2
MaxElements == 3

Ten == <<"1", "0">>

RootInputs ==
    {[tag |-> t, attrib |-> a] :
        t \in {"svg", "rect"},
        a \in {[k \in {"width", "height"} |-> Ten],
               [k \in {"viewBox"} |->
                   <<"0", " ", "0", " ", "1", "0", " ", "1", "0">>],
               [k \in {"width"} |-> Ten]}}

PaintDicts ==
    {Update(f, s) :
        f \in {NoDict} \cup {[k \in {"fill"} |-> v] : v \in {red, blue}},
        s \in {NoDict, [k \in {"stroke"} |-> red]}}

ElementInputs ==
    {[tag |-> t, attrib |-> a] : t \in {"g", "rect"}, a \in PaintDicts}
      \cup {[tag |-> t, attrib |-> NoDict] :
              t \in {"circle", "line", "linearGradient", "title", "foo",
                     "fill", "style", "RECT"}}
      \cup {[tag |-> "fill", attrib |-> [k \in {"fill"} |-> red]]}
      \cup {[tag |-> "path", attrib |-> [k \in {"d"} |-> s]] :
              s \in {SampleMLZ, SampleCompact}}

\* ------------------------------------------------------------------------
\* The parser as a state machine
\* ------------------------------------------------------------------------

nontreevars == <<pathvars, paintvars>>

TreeIdle ==
    /\ status = "idle"
    /\ root = [tag |-> None, attrib |-> NoDict]
    /\ stmts = <<>>
    /\ canvas_width = None
    /\ canvas_height = None
    /\ definitions = NoDict
    /\ group_attrib = <<>>
    /\ frames = <<>>
    /\ visits = <<>>
    /\ compiled = 0

\* SVGParser.__init__
TreeInit == TreeIdle

CanStart == status \in {"idle", "done"} /\ compiled < MaxDocs

\* parse_file on a path that cannot be opened: exit(1).
ParseFileUnreadable ==
    /\ CanStart
    /\ status' = "exit"
    /\ compiled' = compiled + 1
    /\ UNCHANGED <<root, stmts, canvas_width, canvas_height, definitions,
                   group_attrib, frames, visits>>
    /\ UNCHANGED nontreevars

\* parse_string: ET.fromstring returns the root element, which has no
\* getroot(), so __parse_tree raises AttributeError on its first line.
ParseString ==
    /\ CanStart
    /\ \E r \in RootInputs : root' = r
    /\ status' = "error"
    /\ compiled' = compiled + 1
    /\ UNCHANGED <<stmts, canvas_width, canvas_height, definitions,
                   group_attrib, frames, visits>>
    /\ UNCHANGED nontreevars

\* parse_file, __parse_tree up to the root check: the root is not svg.
ParseFileBadRoot ==
    /\ CanStart
    /\ \E r \in RootInputs : r.tag # "svg" /\ root' = r
    /\ status' = "exit"
    /\ compiled' = compiled + 1
    /\ UNCHANGED <<stmts, canvas_width, canvas_height, definitions,
                   group_attrib, frames, visits>>
    /\ UNCHANGED nontreevars

\* parse_file, __parse_tree: the canvas size is missing (KeyError on
\* 'viewBox') after the statements were cleared.
ParseFileNoSize ==
    /\ CanStart
    /\ \E r \in RootInputs :
          /\ r.tag = "svg"
          /\ ~({"width", "height"} \subseteq DOMAIN r.attrib)
          /\ "viewBox" \notin DOMAIN r.attrib
          /\ root' = r
          /\ canvas_width' = IF "width" \in DOMAIN r.attrib
                             THEN r.attrib["width"] ELSE canvas_width
    /\ stmts' = <<>>
    /\ status' = "error"
    /\ compiled' = compiled + 1
    /\ UNCHANGED <<canvas_height, definitions, group_attrib, frames, visits>>
    /\ UNCHANGED nontreevars

\* parse_file, __parse_tree up to begin_element(root).
ParseFile ==
    /\ CanStart
    /\ \E r \in RootInputs :
          /\ r.tag = "svg"
          /\ root' = r
          /\ IF {"width", "height"} \subseteq DOMAIN r.attrib
             THEN /\ canvas_width' = r.attrib["width"]
                  /\ canvas_height' = r.attrib["height"]
             ELSE /\ "viewBox" \in DOMAIN r.attrib
                  /\ Len(Split(r.attrib["viewBox"])) >= 4
                  /\ canvas_width' = Split(r.attrib["viewBox"])[3]
                  /\ canvas_height' = Split(r.attrib["viewBox"])[4]
          /\ stmts' = Emit(<<>>, <<BeginElement(r.tag)>>)
          /\ frames' = <<[tag |-> r.tag, own |-> r.attrib,
                          merged |-> NoDict, visit |-> 0]>>
    /\ definitions' = NoDict
    /\ group_attrib' = <<>>
    /\ visits' = <<>>
    /\ status' = "running"
    /\ compiled' = compiled + 1
    /\ UNCHANGED nontreevars

Walking == status = "running" /\ Len(visits) < MaxElements

\* element.attrib of a child as __parse_element receives it: the root's
\* children as declared, a group's children after the update of line 147.
ChildAttrib(e) ==
    IF Len(frames) > 1 THEN Cascade(e.attrib, frames[Len(frames)].merged)
    ELSE e.attrib

Visit(e, method, outcome, first, last) ==
    [tag |-> e.tag, own |-> e.attrib, attrib |-> ChildAttrib(e),
     groups |-> [i \in 1..(Len(frames) - 1) |-> frames[i + 1].own],
     method |-> method, outcome |-> outcome, first |-> first, last |-> last]

\* __parse_element on a tag of ignored_tags.
VisitIgnored ==
    /\ Walking
    /\ \E e \in ElementInputs :
          /\ e.tag \in ignored_tags
          /\ visits' = Append(visits, Visit(e, None, "ignored",
                                            Len(stmts) + 1, Len(stmts)))
    /\ UNCHANGED <<status, root, stmts, canvas_width, canvas_height,
                   definitions, group_attrib, frames, compiled>>
    /\ UNCHANGED nontreevars

\* __parse_element: getattr finds no method, exit(1).
VisitUnsupported ==
    /\ Walking
    /\ \E e \in ElementInputs :
          /\ e.tag \notin ignored_tags
          /\ lower(e.tag) \notin ParserMethods
          /\ visits' = Append(visits, Visit(e, None, "exit",
                                            Len(stmts) + 1, Len(stmts)))
    /\ status' = "exit"
    /\ UNCHANGED <<root, stmts, canvas_width, canvas_height, definitions,
                   group_attrib, frames, compiled>>
    /\ UNCHANGED nontreevars

\* __parse_element on a group: begin_element and lines 140-143 of __parse_g.
EnterGroup ==
    /\ Walking
    /\ \E e \in ElementInputs :
          /\ e.tag \notin ignored_tags
          /\ lower(e.tag) = "g"
          /\ stmts' = Emit(stmts, <<BeginElement(e.tag)>>)
          /\ group_attrib' = Append(group_attrib, ChildAttrib(e))
          /\ frames' = Append(frames,
                 [tag |-> e.tag, own |-> e.attrib,
                  merged |-> Merged(Append(group_attrib, ChildAttrib(e))),
                  visit |-> Len(visits) + 1])
          /\ visits' = Append(visits, Visit(e, "g", "open",
                                            Len(stmts) + 1, 0))
    /\ UNCHANGED <<status, root, canvas_width, canvas_height, definitions,
                   compiled>>
    /\ UNCHANGED nontreevars

\* The end of __parse_g: no child is left, pop, end_element.
LeaveGroup ==
    /\ status = "running"
    /\ Len(frames) > 1
    /\ LET f == frames[Len(frames)] IN
         /\ stmts' = Emit(stmts, <<EndElement(f.tag)>>)
         /\ visits' = [visits EXCEPT ![f.visit].outcome = "ok",
                                     ![f.visit].last = Len(stmts) + 1]
    /\ group_attrib' = SubSeq(group_attrib, 1, Len(group_attrib) - 1)
    /\ frames' = SubSeq(frames, 1, Len(frames) - 1)
    /\ UNCHANGED <<status, root, canvas_width, canvas_height, definitions,
                   compiled>>
    /\ UNCHANGED nontreevars

GradientKey(e) == IF "id" \in DOMAIN e.attrib THEN e.attrib["id"] ELSE None

\* __parse_element on any other element whose method exists.
VisitLeaf(e) ==
    \E h \in {Handle(e.tag, ChildAttrib(e))} :
        /\ stmts' = Emit(stmts, h.calls)
        /\ visits' = Append(visits,
               Visit(e, lower(e.tag), h.outcome, Len(stmts) + 1,
                     Len(stmts) + Len(h.calls)))
        /\ status' = IF h.outcome = "ok" THEN status ELSE h.outcome
        /\ definitions' =
               IF lower(e.tag) = "lineargradient"
               THEN Update(definitions,
                           [k \in {GradientKey(e)} |-> ChildAttrib(e)])
               ELSE definitions
        /\ UNCHANGED <<root, canvas_width, canvas_height, group_attrib,
                       frames, compiled>>
        /\ UNCHANGED nontreevars

\* A method under the element decorator: a shape, a path, a gradient.
VisitElementMethod ==
    /\ Walking
    /\ \E e \in ElementInputs :
          /\ e.tag \notin ignored_tags
          /\ lower(e.tag) \in ElementMethods \ {"g"}
          /\ VisitLeaf(e)

\* A parser method that is no element handler, reached because its name
\* ends in the tag: __parse_fill, __parse_style, ...
VisitOtherMethod ==
    /\ Walking
    /\ \E e \in ElementInputs :
          /\ e.tag \notin ignored_tags
          /\ lower(e.tag) \in ParserMethods \ ElementMethods
          /\ VisitLeaf(e)

\* The end of __parse_tree: end_element(root).
EndRoot ==
    /\ status = "running"
    /\ Len(frames) = 1
    /\ stmts' = Emit(stmts, <<EndElement(frames[1].tag)>>)
    /\ frames' = <<>>
    /\ status' = "done"
    /\ UNCHANGED <<root, canvas_width, canvas_height, definitions,
                   group_attrib, visits, compiled>>
    /\ UNCHANGED nontreevars

TreeNext ==
    \/ ParseFileUnreadable
    \/ ParseString
    \/ ParseFileBadRoot
    \/ ParseFileNoSize
    \/ ParseFile
    \/ VisitIgnored
    \/ VisitUnsupported
    \/ EnterGroup
    \/ LeaveGroup
    \/ VisitElementMethod
    \/ VisitOtherMethod
    \/ EndRoot

\* ------------------------------------------------------------------------
\* Specifications
\* ------------------------------------------------------------------------

\* One run of the path tokenizer on one path-data string.
InitPath == PathInit /\ PaintIdle /\ TreeIdle
SpecPath == InitPath /\ [][PathNext]_vars

\* Fill and stroke resolution of one shape element.
InitPaint == PaintInit /\ PathIdle /\ TreeIdle
SpecPaint == InitPaint /\ [][PaintNext]_vars

\* One parser instance compiling up to MaxDocs documents in turn.
InitTree == TreeInit /\ PathIdle /\ PaintIdle
SpecTree == InitTree /\ [][TreeNext]_vars

\* ------------------------------------------------------------------------
\* Properties of the tokenizer
\* ------------------------------------------------------------------------

\* The arities of section 3 of the specification.
DeclaredArity ==
    [c \in {"A", "C", "H", "L", "M", "Q", "S", "T", "V", "Z"} |->
        CASE c = "A" -> 7 [] c = "C" -> 6 [] c = "H" -> 1 [] c = "L" -> 2
          [] c = "M" -> 2 [] c = "Q" -> 4 [] c = "S" -> 4 [] c = "T" -> 2
          [] c = "V" -> 1 [] c = "Z" -> 0]

RECURSIVE Concat(_)
Concat(ss) == IF ss = <<>> THEN <<>> ELSE Head(ss) \o Concat(Tail(ss))

PathCommandCalls == SelectSeq(calls, LAMBDA c : c.op = "path_command")

FlushIsExact(f) ==
    LET a == DeclaredArity[Upper(f.command)]
        n == Len(f.parameters)
    IN  IF a = 0
        THEN IF n = 0
             THEN ~f.exit /\ f.emitted = <<PathCall(f.command, <<>>)>>
             ELSE f.exit /\ f.emitted = <<>>
        ELSE IF n % a = 0
             THEN /\ ~f.exit
                  /\ Len(f.emitted) = n \div a
                  /\ \A k \in DOMAIN f.emitted :
                        /\ f.emitted[k].op = "path_command"
                        /\ f.emitted[k].command = f.command
                        /\ f.emitted[k].args =
                             [j \in 1..a |-> f.parameters[(k - 1) * a + j]]
             ELSE f.exit /\ f.emitted = <<>>

\* C1: every flushed command with arity a > 0 and n parameters emits exactly
\* n/a path_command calls of that letter carrying consecutive slices of a
\* parameters when a divides n, and otherwise aborts with no call; a
\* zero-arity command emits one parameterless call when n = 0 and aborts when
\* n > 0; the generator receives exactly these calls, and
\* "M10 10 L20 20 30 30 Z" yields (M,[10,10]), (L,[20,20]), (L,[30,30]),
\* (Z,[]).
C1_FlushesAreExact ==
    /\ \A i \in DOMAIN flushes : FlushIsExact(flushes[i])
    /\ PathCommandCalls = Concat([i \in DOMAIN flushes |-> flushes[i].emitted])
    /\ \A i \in DOMAIN flushes : flushes[i].exit =>
          i = Len(flushes) /\ pstatus = "exit"
    /\ (d = SampleMLZ /\ pstatus \notin {"start", "scan"}) =>
          /\ pstatus = "done"
          /\ PathCommandCalls =
               << PathCall("M", << <<"1", "0">>, <<"1", "0">> >>),
                  PathCall("L", << <<"2", "0">>, <<"2", "0">> >>),
                  PathCall("L", << <<"3", "0">>, <<"3", "0">> >>),
                  PathCall("Z", <<>>) >>

\* A command with four parameters and arity two has been flushed as two calls.
C1_Witness ==
    /\ d = SampleMLZ
    /\ pstatus = "done"
    /\ \E i \in DOMAIN flushes :
          Len(flushes[i].parameters) = 4 /\ Len(flushes[i].emitted) = 2

\* C2 (as claimed): tokenizing "M1.5.6 7" completes and yields exactly one
\* token, M with the parameters 1.5, 0.6 (written .6) and 7.
C2_Original ==
    (d = SampleCompact /\ pstatus \notin {"start", "scan"}) =>
        /\ pstatus = "done"
        /\ PathCommandCalls =
             << PathCall("M", << <<"1", ".", "5">>, <<".", "6">>, <<"7">> >>) >>

\* C2 (amended): tokenizing "M1.5.6 7" splits the numbers as 1.5, .6 and 7,
\* the second '.' ending the current number and starting a new one at that
\* '.'; the three parameters are not a multiple of M's arity 2, so the final
\* flush aborts and no path_command is emitted.
C2_CompactSplitsThenAborts ==
    (d = SampleCompact /\ pstatus \notin {"start", "scan"}) =>
        /\ pstatus = "exit"
        /\ PathCommandCalls = <<>>
        /\ flushes = << [command |-> "M",
                         parameters |-> << <<"1", ".", "5">>, <<".", "6">>,
                                           <<"7">> >>,
                         emitted |-> <<>>, exit |-> TRUE] >>

C2_Witness ==
    /\ d = SampleCompact
    /\ pstatus = "exit"
    /\ Len(flushes) = 1

Letters ==
    {"A", "B", "C", "D", "E", "F", "G", "H", "I", "J", "K", "L", "M", "N",
     "O", "P", "Q", "R", "S", "T", "U", "V", "W", "X", "Y", "Z",
     "a", "b", "c", "d", "e", "f", "g", "h", "i", "j", "k", "l", "m", "n",
     "o", "p", "q", "r", "s", "t", "u", "v", "w", "x", "y", "z"}

HasUnknownLetter(s) == \E i \in DOMAIN s : s[i] \in Letters \ commands

\* C7: a path-data string containing a letter that is not a known command
\* code never completes (compilation halts), and no path_command is emitted
\* for that letter.
C7_UnknownLetterIsFatal ==
    /\ (HasUnknownLetter(d) /\ pstatus \notin {"start", "scan"}) =>
          pstatus = "exit"
    /\ \A i \in DOMAIN calls :
          calls[i].op = "path_command" =>
              \A j \in DOMAIN calls[i].args :
                  ~HasUnknownLetter(calls[i].args[j])

WellFormedParameter(p) ==
    /\ p # <<>>
    /\ Count(p, ".") <= 1
    /\ \A i \in DOMAIN p : p[i] = "-" => i = 1

\* C10: while a path-data string is scanned, found_decimal_separator is true
\* exactly when the pending parameter string contains a '.', and then it
\* contains exactly one; every parameter appended to a parameter list is
\* non-empty, has at most one '.', and has '-' only as its first character.
C10_DecimalFlagInvariant ==
    /\ pstatus = "scan" =>
          /\ found_decimal_separator <=> (Count(parameter_string, ".") > 0)
          /\ Count(parameter_string, ".") <= 1
    /\ \A i \in DOMAIN parameters : WellFormedParameter(parameters[i])
    /\ \A i \in DOMAIN flushes :
          \A j \in DOMAIN flushes[i].parameters :
              WellFormedParameter(flushes[i].parameters[j])

\* A second '.' has just split a number: the finished parameter and the
\* pending one each hold one '.'.
C10_Witness ==
    /\ pstatus = "scan"
    /\ command # None
    /\ found_decimal_separator
    /\ parameter_string = <<".">>
    /\ \E i \in DOMAIN parameters : Count(parameters[i], ".") = 1

\* ------------------------------------------------------------------------
\* Properties of stroke resolution
\* ------------------------------------------------------------------------

StrokeCalls == SelectSeq(paint_calls, LAMBDA c : c.op = "stroke")
FillCalls == SelectSeq(paint_calls, LAMBDA c : c.op = "fill")

WidthResolved ==
    \/ "stroke-width" \in DOMAIN element_attrib
    \/ parse_style(element_attrib, "stroke-width") # none

ResolvedWidth ==
    IF "stroke-width" \in DOMAIN element_attrib
    THEN element_attrib["stroke-width"]
    ELSE parse_style(element_attrib, "stroke-width")

HasNumber == WidthResolved /\ FirstNumber(ResolvedWidth) # <<>>

\* The fill call that the element's fill and opacity attributes call for.
ExpectedFillCalls ==
    IF "fill" \in DOMAIN element_attrib /\ element_attrib["fill"] # none
    THEN <<[op |-> "fill",
            args |-> [k \in {"fill", "fill-opacity"} |->
                        IF k = "fill" THEN element_attrib["fill"]
                        ELSE FloatOf(element_attrib, "opacity")]]>>
    ELSE <<>>

\* C6: after the fill and stroke of a shape element are resolved, no stroke
\* call at all has been made when the first numeric substring of the resolved
\* stroke-width is < 1; when it is >= 1 exactly one stroke call has been made
\* and its stroke-width is that numeric substring; without a stroke-width the
\* stroke call carries none; the fill call is the one the element's fill
\* calls for, whatever the stroke-width.  "0.5px" drops the stroke, "1.2px"
\* keeps it with width 1.2.
C6_SubPixelStrokeDropped ==
    paint_pc = "done" =>
        /\ (HasNumber /\ LessThanOne(Float(FirstNumber(ResolvedWidth)))) =>
              StrokeCalls = <<>>
        /\ (HasNumber /\ ~LessThanOne(Float(FirstNumber(ResolvedWidth)))) =>
              /\ Len(StrokeCalls) = 1
              /\ {"stroke", "stroke-opacity", "stroke-width"}
                    \subseteq DOMAIN StrokeCalls[1].args
              /\ StrokeCalls[1].args["stroke-width"] =
                    FirstNumber(ResolvedWidth)
        /\ ~WidthResolved =>
              /\ Len(StrokeCalls) = 1
              /\ DOMAIN StrokeCalls[1].args = {"stroke", "stroke-opacity"}
        /\ FillCalls = ExpectedFillCalls
        /\ ResolvedWidth = SampleHalfPx => StrokeCalls = <<>>
        /\ ResolvedWidth = SampleOnePointTwoPx =>
              /\ Len(StrokeCalls) = 1
              /\ StrokeCalls[1].args["stroke-width"] = <<"1", ".", "2">>

\* A filled element whose stroke-width "0.5px" made the stroke vanish.
C6_Witness ==
    /\ paint_pc = "done"
    /\ ResolvedWidth = SampleHalfPx
    /\ "stroke" \in DOMAIN element_attrib
    /\ Len(FillCalls) = 1
    /\ StrokeCalls = <<>>

\* ------------------------------------------------------------------------
\* Properties of the cascade and of the tree walker
\* ------------------------------------------------------------------------

InGroup(v) == v.groups # <<>>

\* The fill call made for the visited element v, if any, carries value.
FillCallCarries(v, value) ==
    \A j \in v.first..v.last :
        stmts[j].op = "fill" => stmts[j].args["fill"] = value

\* C3: for every child of a group and every attribute name k, a k that the
\* child declares keeps the child's own value (also in the fill emitted for
\* it), and a k that only the group declares takes the group's value.
C3_ChildValueWins ==
    \A i \in DOMAIN visits :
        InGroup(visits[i]) =>
            LET v == visits[i]
                group == v.groups[Len(v.groups)]
            IN  /\ \A k \in DOMAIN v.own :
                      k \in DOMAIN v.attrib /\ v.attrib[k] = v.own[k]
                /\ \A k \in DOMAIN group \ DOMAIN v.own :
                      k \in DOMAIN v.attrib /\ v.attrib[k] = group[k]
                /\ (v.method = "rect" /\ "fill" \in DOMAIN v.own) =>
                      FillCallCarries(v, v.own["fill"])

\* The innermost of the groups that declare k.
Innermost(groups, k) ==
    groups[CHOOSE i \in DOMAIN groups :
              /\ k \in DOMAIN groups[i]
              /\ \A j \in DOMAIN groups : k \in DOMAIN groups[j] => j <= i]

\* C8: a handled element nested in two or more groups is resolved with the union of
\* the attribute mappings of all enclosing groups, and an attribute that the
\* element lacks and that an inner and an outer group both declare takes the
\* innermost group's value.
C8_InnermostGroupWins ==
    \A i \in DOMAIN visits :
        (Len(visits[i].groups) >= 2 /\ visits[i].method # None) =>
            LET v == visits[i] IN
            /\ DOMAIN v.attrib =
                 DOMAIN v.own
                   \cup UNION {DOMAIN v.groups[j] : j \in DOMAIN v.groups}
            /\ \A k \in DOMAIN v.attrib \ DOMAIN v.own :
                  v.attrib[k] = Innermost(v.groups, k)[k]

\* C4: once a document whose root is not svg was given to the parser,
\* compilation has halted and the statement sequence is empty, also when the
\* parser had compiled an earlier document.
C4_BadRootLeavesNoStatements ==
    root.tag \notin {None, "svg"} =>
        /\ status \in {"exit", "error"}
        /\ stmts = <<>>

\* The closed set of handlers of section 4.5, by tag.
HandlerOfTag ==
    [t \in {"g", "rect", "circle", "ellipse", "line", "polygon", "polyline",
            "path", "linearGradient"} |->
        IF t = "linearGradient" THEN "lineargradient" ELSE t]

\* C5: a denylisted element emits nothing and raises nothing; an element of
\* the closed handler set is given to its handler; for any other tag
\* compilation halts and no method of the parser is invoked on the element.
C5_ClosedDispatch ==
    \A i \in DOMAIN visits :
        LET v == visits[i] IN
        IF v.tag \in ignored_tags
        THEN v.method = None /\ v.outcome = "ignored" /\ v.last < v.first
        ELSE IF v.tag \in DOMAIN HandlerOfTag
        THEN v.method = HandlerOfTag[v.tag]
        ELSE v.method = None /\ v.outcome = "exit" /\ status = "exit"

IsBracket(c) == c.op \in {"begin_element", "end_element"}

\* The begin/end calls of cs close in the reverse of the order they opened.
RECURSIVE Nested(_, _)
Nested(cs, open) ==
    IF cs = <<>> THEN open = <<>>
    ELSE IF Head(cs).op = "begin_element"
    THEN Nested(Tail(cs), Append(open, Head(cs).tag))
    ELSE /\ open # <<>>
         /\ open[Len(open)] = Head(cs).tag
         /\ Nested(Tail(cs), SubSeq(open, 1, Len(open) - 1))

\* C9: in a compilation that completed, the begin_element/end_element calls
\* are balanced and properly nested, the root svg is the outermost pair and
\* is bracketed once, every handled non-root element has begin_element(tag)
\* before and end_element(tag) after all the calls made for it, and a
\* denylisted element contributes no call.
C9_BalancedBrackets ==
    status = "done" =>
        /\ Len(stmts) >= 2
        /\ stmts[1] = BeginElement("svg")
        /\ stmts[Len(stmts)] = EndElement("svg")
        /\ Cardinality({j \in DOMAIN stmts :
                           stmts[j] = BeginElement("svg")}) = 1
        /\ Nested(SelectSeq(stmts, IsBracket), <<>>)
        /\ \A i \in DOMAIN visits :
              LET v == visits[i] IN
              IF v.outcome = "ignored" THEN v.last < v.first
              ELSE /\ v.first < v.last
                   /\ stmts[v.first] = BeginElement(v.tag)
                   /\ stmts[v.last] = EndElement(v.tag)

====
